---- MODULE Spec2Model ----
(***************************************************************************)
(* The Great Dictator: text normalisation (cleanText), tokenisation        *)
(* (tokenizeText / tokenData) and the highlight test of the render, as     *)
(* written in src/src/App.jsx.                                             *)
(*                                                                         *)
(* A JavaScript string is modelled as a sequence of one-character strings. *)
(* null / undefined is the distinguished value Null.                       *)
(***************************************************************************)
EXTENDS Integers, Sequences, FiniteSets, TLC

VARIABLES
    text,               \* the raw text given to cleanText and tokenData
    tokenData,          \* the memoized token table built from text
    utteranceText,      \* cleanText(text), the string handed to the engine
    recleanedText,      \* cleanText applied to utteranceText
    currentCharIndex,   \* the offset reported by the engine, -1 = none
    highlighted,        \* the mapIndex values the render marks isCurrentWord
    pc,                 \* position in the pipeline
    selectedText,       \* useState('') : the selection made in the textarea
    isSpeaking,         \* useState(false)
    isPaused,           \* useState(false)
    isGeneratingAudio,  \* useState(false)
    error,              \* useState(null) : the error message shown
    voices,             \* useState([]) : the names of the loaded voices
    selectedVoice,      \* useLocalStorage('dictatorVoice', null)
    synthPaused,        \* speechSynthesis.paused
    utterance,          \* the utterance in the queue of the engine, or NoUtterance
    cancelled,          \* how many utterances removed by cancel() are owed their last event
    synth,              \* window.speechSynthesis, or Undefined in a browser without it
    timerLeft,          \* seconds until the error timer fires, -1 when none is pending
    errorAge            \* seconds since the last setError call that set a message

appVars == <<selectedText, isSpeaking, isPaused, isGeneratingAudio, error, voices,
             selectedVoice, synthPaused, utterance, cancelled, synth, timerLeft,
             errorAge>>

vars == <<text, tokenData, utteranceText, recleanedText, currentCharIndex,
          highlighted, pc, appVars>>

----------------------------------------------------------------------------
(* Bounds and character classes *)

MaxLen == 5

\* JavaScript \s and String.prototype.trim agree on the whitespace set; three
\* of its members stand for it here.
WhiteSpace == {" ", "\n", "\t"}

\* The characters of the markup pattern: star, underscore, hash, backtick.
\* A backtick cannot be written inside a string literal, so the element
\* "backtick" stands for that character.
Markup == {"*", "_", "#", "backtick"}

\* The alphabet of the enumerated raw texts: a letter, two whitespace
\* characters, the tag delimiters and a markup character.
Alphabet == {"a", " ", "\n", "<", ">", "*"}

Null == <<"null">>

BoundedTexts == UNION {[1..n -> Alphabet] : n \in 0..MaxLen}

Example1 == <<"H", "e", "l", "l", "o", " ", "<", "b", ">", "w", "o", "r", "l", "d", "<", "/", "b", ">", "!">>
Example1Clean == <<"H", "e", "l", "l", "o", " ", "w", "o", "r", "l", "d", " ", "!">>
Example2 == <<"*", "*", "b", "o", "l", "d", "*", "*", " ", "a", "n", "d", " ", "_", "u", "n", "d", "e", "r", "l", "i", "n", "e", "_">>
Example2Clean == <<"b", "o", "l", "d", " ", "a", "n", "d", " ", "u", "n", "d", "e", "r", "l", "i", "n", "e">>
HiThere == <<"H", "i", " ", "t", "h", "e", "r", "e">>
TagWithSpace == <<"<", "a", " ", "b", ">", " ", "c">>

ExampleTexts == {Example1, Example2, HiThere, TagWithSpace}

RawTexts == BoundedTexts \cup ExampleTexts \cup {Null}

Min(a, b) == IF a < b THEN a ELSE b

----------------------------------------------------------------------------
(* cleanText, src/src/App.jsx:29-35 *)

\* !rawText : null, undefined and the empty string are falsy
Falsy(s) == s = Null \/ s = <<>>

\* The last index of the maximal run of characters of class S starting at i
\* (a greedy X+ match starting at i, s[i] \in S).
RunEnd(s, i, S) ==
    CHOOSE k \in i..Len(s) :
        /\ \A j \in i..k : s[j] \in S
        /\ (k = Len(s) \/ s[k + 1] \notin S)

\* Where /<[^>]*>/ matched at i (s[i] = "<") ends: the first ">" after i,
\* or 0 when there is none and the match fails at i.
TagEnd(s, i) ==
    IF \E k \in (i + 1)..Len(s) : s[k] = ">"
    THEN CHOOSE k \in (i + 1)..Len(s) :
            s[k] = ">" /\ \A j \in (i + 1)..(k - 1) : s[j] # ">"
    ELSE 0

\* rawText.replace(/<[^>]*>/g, ' ') scanning from index i
RECURSIVE ScanTags(_, _)
ScanTags(s, i) ==
    IF i > Len(s) THEN <<>>
    ELSE IF s[i] = "<" /\ TagEnd(s, i) # 0
         THEN <<" ">> \o ScanTags(s, TagEnd(s, i) + 1)
         ELSE <<s[i]>> \o ScanTags(s, i + 1)

\* A plausible slip: the tag replaced by the empty string instead of a space.
RECURSIVE ScanTagsEmpty(_, _)
ScanTagsEmpty(s, i) ==
    IF i > Len(s) THEN <<>>
    ELSE IF s[i] = "<" /\ TagEnd(s, i) # 0
         THEN ScanTagsEmpty(s, TagEnd(s, i) + 1)
         ELSE <<s[i]>> \o ScanTagsEmpty(s, i + 1)

ReplaceTagsEmpty(s) == ScanTagsEmpty(s, 1)

ReplaceTags(s) == ScanTags(s, 1)

\* clean.replace(markup pattern, one space) scanning from index i
RECURSIVE ScanMarkup(_, _)
ScanMarkup(s, i) ==
    IF i > Len(s) THEN <<>>
    ELSE IF s[i] \in Markup
         THEN <<" ">> \o ScanMarkup(s, RunEnd(s, i, Markup) + 1)
         ELSE <<s[i]>> \o ScanMarkup(s, i + 1)

ReplaceMarkup(s) == ScanMarkup(s, 1)

\* clean.replace(/\s\s+/g, ' ') scanning from index i
RECURSIVE ScanSpaces(_, _)
ScanSpaces(s, i) ==
    IF i > Len(s) THEN <<>>
    ELSE IF s[i] \in WhiteSpace /\ i < Len(s) /\ s[i + 1] \in WhiteSpace
         THEN <<" ">> \o ScanSpaces(s, RunEnd(s, i, WhiteSpace) + 1)
         ELSE <<s[i]>> \o ScanSpaces(s, i + 1)

CollapseSpaces(s) == ScanSpaces(s, 1)

\* .trim()
Trim(s) ==
    IF \A i \in 1..Len(s) : s[i] \in WhiteSpace THEN <<>>
    ELSE LET first == CHOOSE i \in 1..Len(s) :
                        s[i] \notin WhiteSpace /\ \A j \in 1..(i - 1) : s[j] \in WhiteSpace
             last  == CHOOSE i \in 1..Len(s) :
                        s[i] \notin WhiteSpace /\ \A j \in (i + 1)..Len(s) : s[j] \in WhiteSpace
         IN  SubSeq(s, first, last)

\* A plausible slip: the whitespace collapse written before the markup
\* replacement instead of after it.
cleanTextCollapseFirst(rawText) ==
    IF Falsy(rawText) THEN <<>>
    ELSE Trim(ReplaceMarkup(CollapseSpaces(ReplaceTags(rawText))))

\* A plausible slip: the .trim() left out.
cleanTextNoTrim(rawText) ==
    IF Falsy(rawText) THEN <<>>
    ELSE CollapseSpaces(ReplaceMarkup(ReplaceTags(rawText)))

cleanText(rawText) ==
    IF Falsy(rawText) THEN <<>>
    ELSE Trim(CollapseSpaces(ReplaceMarkup(ReplaceTags(rawText))))

----------------------------------------------------------------------------
(* tokenizeText, src/src/App.jsx:38-41 *)

\* rawText.match(/\S+|\s+/g) scanning from index i: at each position the
\* maximal run of non-whitespace, or else the maximal run of whitespace.
RECURSIVE ScanTokens(_, _)
ScanTokens(s, i) ==
    IF i > Len(s) THEN <<>>
    ELSE LET k == IF s[i] \notin WhiteSpace
                  THEN CHOOSE e \in i..Len(s) :
                          /\ \A j \in i..e : s[j] \notin WhiteSpace
                          /\ (e = Len(s) \/ s[e + 1] \in WhiteSpace)
                  ELSE RunEnd(s, i, WhiteSpace)
         IN  <<SubSeq(s, i, k)>> \o ScanTokens(s, k + 1)

\* A plausible slip: /\S+/g, which drops the whitespace runs.
RECURSIVE ScanWordsOnly(_, _)
ScanWordsOnly(s, i) ==
    IF i > Len(s) THEN <<>>
    ELSE IF s[i] \in WhiteSpace THEN ScanWordsOnly(s, i + 1)
    ELSE LET k == CHOOSE e \in i..Len(s) :
                          /\ \A j \in i..e : s[j] \notin WhiteSpace
                          /\ (e = Len(s) \/ s[e + 1] \in WhiteSpace)
         IN  <<SubSeq(s, i, k)>> \o ScanWordsOnly(s, k + 1)

tokenizeTextWordsOnly(rawText) == ScanWordsOnly(rawText, 1)

\* A plausible slip: the + of \S+ forgotten, so that every non-whitespace
\* character is a token of its own.
RECURSIVE ScanSingleChars(_, _)
ScanSingleChars(s, i) ==
    IF i > Len(s) THEN <<>>
    ELSE LET k == IF s[i] \notin WhiteSpace THEN i ELSE RunEnd(s, i, WhiteSpace)
         IN  <<SubSeq(s, i, k)>> \o ScanSingleChars(s, k + 1)

tokenizeTextSingleChars(rawText) == ScanSingleChars(rawText, 1)

\* match() returns null when nothing matches; || [] turns that into [].
tokenizeText(rawText) == ScanTokens(rawText, 1)

----------------------------------------------------------------------------
(* tokenData, src/src/App.jsx:342-366 *)

\* /\S/.test(token)
IsWordToken(token) == \E i \in 1..Len(token) : token[i] \notin WhiteSpace

\* A plausible slip: the cursor assigned instead of advanced.
AdvanceAssign(currentCleanIndex, isWord, cleanLength) ==
    IF isWord /\ cleanLength > 0
    THEN cleanLength + 1
    ELSE currentCleanIndex

\* A plausible slip: the cursor advanced for every word, also an empty one.
AdvanceAlways(currentCleanIndex, isWord, cleanLength) ==
    IF isWord
    THEN currentCleanIndex + cleanLength + 1
    ELSE currentCleanIndex

\* A plausible slip: a sign error, length - 1 instead of length + 1.
AdvanceShort(currentCleanIndex, isWord, cleanLength) ==
    IF isWord /\ cleanLength > 0
    THEN currentCleanIndex + cleanLength - 1
    ELSE currentCleanIndex

\* A plausible slip: the separator forgotten, length instead of length + 1.
AdvanceNoSeparator(currentCleanIndex, isWord, cleanLength) ==
    IF isWord /\ cleanLength > 0
    THEN currentCleanIndex + cleanLength
    ELSE currentCleanIndex

\* if (isWord && cleanedToken.length > 0) currentCleanIndex += cleanedToken.length + 1
Advance(currentCleanIndex, isWord, cleanLength) ==
    IF isWord /\ cleanLength > 0
    THEN currentCleanIndex + cleanLength + 1
    ELSE currentCleanIndex

\* The for loop over rawTokens from index i with the cursor at currentCleanIndex
RECURSIVE VisualTokens(_, _, _)
VisualTokens(rawTokens, i, currentCleanIndex) ==
    IF i > Len(rawTokens) THEN <<>>
    ELSE LET token        == rawTokens[i]
             isWord       == IsWordToken(token)
             cleanedToken == IF isWord THEN cleanText(token) ELSE <<>>
         IN  <<[token           |-> token,
                isWord          |-> isWord,
                cleanIndexStart |-> currentCleanIndex,
                cleanLength     |-> Len(cleanedToken)]>>
             \o VisualTokens(rawTokens, i + 1,
                             Advance(currentCleanIndex, isWord, Len(cleanedToken)))

TokenData(textToHighlight) ==
    IF Falsy(textToHighlight) THEN <<>>
    ELSE VisualTokens(tokenizeText(textToHighlight), 1, 0)

----------------------------------------------------------------------------
(* The highlight test of the render, src/src/App.jsx:486-500 *)

\* A plausible slip: <= end instead of < end.
IsCurrentWordInclusive(item, charIndex) ==
    /\ item.isWord
    /\ charIndex > -1
    /\ charIndex >= item.cleanIndexStart
    /\ charIndex <= item.cleanIndexStart + item.cleanLength

\* A plausible slip: the lower bound of the range test left out.
IsCurrentWordNoLower(item, charIndex) ==
    /\ item.isWord
    /\ charIndex > -1
    /\ charIndex < item.cleanIndexStart + item.cleanLength

IsCurrentWord(item, charIndex) ==
    /\ item.isWord
    /\ charIndex > -1
    /\ charIndex >= item.cleanIndexStart
    /\ charIndex < item.cleanIndexStart + item.cleanLength

\* The set of mapIndex values for which the map callback sets isCurrentWord
Highlighted(table, charIndex) ==
    {m \in 1..Len(table) : IsCurrentWord(table[m], charIndex)}

----------------------------------------------------------------------------
(* The pipeline: build the table, normalize, normalize again, and render   *)
(* for an offset reported by the engine.                                   *)

Unset == <<"unset">>

\* The state of the component and of the engine before any handler has run
NoUtterance == [text |-> Null]
NoVoice == "null"
NoError == "null"

\* window.speechSynthesis, present or not
SpeechSynthesis == "speechSynthesis"
Undefined == "undefined"

AppIdle ==
    /\ selectedText = <<>>
    /\ isSpeaking = FALSE
    /\ isPaused = FALSE
    /\ isGeneratingAudio = FALSE
    /\ error = NoError
    /\ voices = <<>>
    /\ selectedVoice = NoVoice
    /\ synthPaused = FALSE
    /\ utterance = NoUtterance
    /\ cancelled = 0
    /\ synth = SpeechSynthesis
    /\ timerLeft = -1
    /\ errorAge = 0

CharIndexes(raw) == -1..((IF raw = Null THEN 0 ELSE Len(raw)) + 1)

TextInit ==
    /\ text \in RawTexts
    /\ tokenData = <<>>
    /\ utteranceText = Unset
    /\ recleanedText = Unset
    /\ currentCharIndex = -1
    /\ highlighted = {}
    /\ pc = "input"
    /\ AppIdle

\* useMemo(() => ..., [textToHighlight])
Tokenize ==
    /\ pc = "input"
    /\ tokenData' = TokenData(text)
    /\ pc' = "tokenized"
    /\ UNCHANGED <<text, utteranceText, recleanedText, currentCharIndex, highlighted, appVars>>

\* const utteranceText = cleanText(textToUse)
Normalize ==
    /\ pc = "tokenized"
    /\ utteranceText' = cleanText(text)
    /\ pc' = "normalized"
    /\ UNCHANGED <<text, tokenData, recleanedText, currentCharIndex, highlighted, appVars>>

\* cleanText applied to its own output
NormalizeAgain ==
    /\ pc = "normalized"
    /\ recleanedText' = cleanText(utteranceText)
    /\ pc' = "speaking"
    /\ UNCHANGED <<text, tokenData, utteranceText, currentCharIndex, highlighted, appVars>>

\* utterance.onboundary with event.name === 'word' (or the reset to -1):
\* setCurrentCharIndex(event.charIndex), and the render that the state
\* change causes, tokenData.map(...)
OnBoundary(charIndex) ==
    /\ pc = "speaking"
    /\ currentCharIndex' = charIndex
    /\ highlighted' = Highlighted(tokenData, charIndex)
    /\ pc' = "rendered"
    /\ UNCHANGED <<text, tokenData, utteranceText, recleanedText, appVars>>

\* utterance.onstart: setCurrentCharIndex(0), and the render that the state
\* change causes
OnStart ==
    /\ pc = "speaking"
    /\ currentCharIndex' = 0
    /\ highlighted' = Highlighted(tokenData, 0)
    /\ pc' = "rendered"
    /\ UNCHANGED <<text, tokenData, utteranceText, recleanedText, appVars>>

TextNext ==
    \/ Tokenize
    \/ Normalize
    \/ NormalizeAgain
    \/ OnStart
    \/ \E charIndex \in CharIndexes(text) : OnBoundary(charIndex)

TextSpec == TextInit /\ [][TextNext]_vars

----------------------------------------------------------------------------
(* The App component and the speech engine it drives, src/src/App.jsx.     *)
(* rate, pitch, volume and isControlsOpen are left out: no handler reads   *)
(* them to decide anything about the text, the table or the speech state.  *)
(* handleSpeak is only ever called with isRecordingAttempt = false.        *)

MaxPending == 1
MaxCharIndex == 3
MaxSelLen == 1

\* DEFAULT_TEXT, cut after its first sentence: the handlers only store it and
\* pass it to cleanText and tokenizeText like any other text.
DEFAULT_TEXT ==
    <<"G", "r", "e", "e", "t", "i", "n", "g", "s", ",", " ",
      "c", "i", "t", "i", "z", "e", "n", ".">>

\* The texts the user types or uploads
EditTexts == {<<>>, HiThere}

\* What the 'dictatorText' key of the local storage can hold at start-up
StoredTexts == EditTexts \cup {DEFAULT_TEXT}

\* The voices of the engine once they are loaded, and the names the
\* 'dictatorVoice' key can hold: none, a voice of the engine, or a voice
\* this engine does not have.
AvailableVoices == <<[name |-> "Alice", lang |-> "fr-FR"],
                     [name |-> "Bob", lang |-> "en-US"]>>
StoredVoices == {NoVoice, "Bob", "Gone"}

ErrVoiceNotFound == "Selected voice not found."
ErrSpeech == "Speech Error: "
ErrGenerationCancelled == "Audio generation cancelled by pause action."
ErrGenerationNotice == "Audio file generation requires replacing the native SpeechSynthesis API with a library that uses the Web Audio API (e.g., a pure JS TTS engine or a serverless cloud API integration) to access raw audio data for file encoding. Functionality not yet implemented."
ErrEnterText == "Please enter text before attempting to generate audio."
ErrReadingFile == "Error reading file."
ErrNotSupported == "Web Speech Synthesis API is not supported in this browser."

\* error.includes("not supported")
IncludesNotSupported(e) == e = ErrNotSupported

\* A plausible slip: the full text spoken also when there is a selection.
TextToUseFullText(selected, full) == full

\* handleSpeak and handleGenerateAudio: selectedText || text
TextToUse(selected, full) == IF selected # <<>> THEN selected ELSE full

\* A plausible slip: the selection ignored.
TextToHighlightIgnoresSelection(selected, full) == full

\* textToHighlight = selectedText || text
TextToHighlight(selected, full) == IF selected # <<>> THEN selected ELSE full

\* The render that follows every state change: the memoized table and the
\* spans marked as the current word (the highlighted display is only shown
\* while isSpeaking).
RenderDisplay ==
    /\ tokenData' = TokenData(TextToHighlight(selectedText', text'))
    /\ highlighted' = IF isSpeaking'
                      THEN Highlighted(tokenData', currentCharIndex')
                      ELSE {}

\* setTimeout(..., 5000) of the error clearing effect, in seconds
ErrorDelay == 5

\* The error clearing effect, run after a render in which error has changed:
\* its cleanup clears the pending timer, and a message starts a new one.
ErrorEffect ==
    timerLeft' = IF error' = error THEN timerLeft
                 ELSE IF error' = NoError THEN -1
                 ELSE ErrorDelay

\* The render and the effects that follow every state change of a handler;
\* the synth object is the same for the life of the component.
Render ==
    /\ RenderDisplay
    /\ ErrorEffect
    /\ UNCHANGED synth

\* voices.find(v => v.name === selectedVoice)
VoiceFound == \E i \in 1..Len(voices) : voices[i].name = selectedVoice

\* availableVoices.find(v => v.lang.startsWith('en')) || availableVoices[0]
StartsWithEn(lang) == lang \in {"en-US", "en-GB"}
DefaultVoice(available) ==
    IF \E i \in 1..Len(available) : StartsWithEn(available[i].lang)
    THEN available[CHOOSE i \in 1..Len(available) :
                      /\ StartsWithEn(available[i].lang)
                      /\ \A j \in 1..(i - 1) : ~StartsWithEn(available[j].lang)].name
    ELSE available[1].name

\* speechSynthesis.speaking: an utterance has begun being spoken and has not
\* completed
SynthSpeaking == utterance # NoUtterance /\ utterance.started

\* speechSynthesis.cancel(): every utterance leaves the queue and is owed its
\* last event; the paused flag is left as it is.
AfterCancel == IF utterance = NoUtterance THEN cancelled ELSE cancelled + 1

\* The events owed to cancelled utterances are delivered before more than
\* MaxPending of them are outstanding.
CanCancel == utterance = NoUtterance \/ cancelled < MaxPending

Init ==
    /\ text \in StoredTexts
    /\ selectedVoice \in StoredVoices
    /\ selectedText = <<>>
    /\ isSpeaking = FALSE
    /\ isPaused = FALSE
    /\ isGeneratingAudio = FALSE
    /\ error = NoError
    /\ voices = <<>>
    /\ currentCharIndex = -1
    /\ synthPaused = FALSE
    /\ utterance = NoUtterance
    /\ cancelled = 0
    /\ synth = SpeechSynthesis
    /\ timerLeft = -1
    /\ errorAge = 0
    /\ utteranceText = Unset
    /\ recleanedText = Unset
    /\ pc = "app"
    /\ tokenData = TokenData(TextToHighlight(<<>>, text))
    /\ highlighted = {}

\* loadVoices, run by the voiceschanged event and by the effect
LoadVoices(available) ==
    /\ voices' = available
    /\ selectedVoice' = IF Len(available) > 0 /\ selectedVoice = NoVoice
                        THEN DefaultVoice(available)
                        ELSE selectedVoice
    /\ UNCHANGED <<text, selectedText, isSpeaking, isPaused, isGeneratingAudio, error, errorAge,
                   currentCharIndex, synthPaused, utterance, cancelled,
                   utteranceText, recleanedText, pc>>
    /\ Render

\* A plausible slip: handlePause without setIsSpeaking(false).
HandlePauseKeepsSpeaking ==
    /\ IF SynthSpeaking /\ ~synthPaused
       THEN /\ synthPaused' = TRUE
            /\ isPaused' = TRUE
            /\ UNCHANGED <<isSpeaking, isGeneratingAudio, error, errorAge>>
       ELSE UNCHANGED <<synthPaused, isPaused, isSpeaking, isGeneratingAudio, error, errorAge>>
    /\ UNCHANGED <<text, selectedText, voices, selectedVoice, currentCharIndex,
                   utterance, cancelled, utteranceText, recleanedText, pc>>
    /\ Render

\* handlePause
HandlePause ==
    /\ IF SynthSpeaking /\ ~synthPaused
       THEN /\ synthPaused' = TRUE
            /\ isPaused' = TRUE
            /\ isSpeaking' = FALSE
            /\ IF isGeneratingAudio
               THEN /\ isGeneratingAudio' = FALSE
                    /\ error' = ErrGenerationCancelled
                    /\ errorAge' = 0
               ELSE UNCHANGED <<isGeneratingAudio, error, errorAge>>
       ELSE UNCHANGED <<synthPaused, isPaused, isSpeaking, isGeneratingAudio, error, errorAge>>
    /\ UNCHANGED <<text, selectedText, voices, selectedVoice, currentCharIndex,
                   utterance, cancelled, utteranceText, recleanedText, pc>>
    /\ Render

\* A plausible slip: handleResume restarting the highlight at the first word.
HandleResumeRestartsIndex ==
    /\ IF synthPaused
       THEN /\ synthPaused' = FALSE
            /\ isPaused' = FALSE
            /\ isSpeaking' = TRUE
            /\ currentCharIndex' = 0
       ELSE UNCHANGED <<synthPaused, isPaused, isSpeaking, currentCharIndex>>
    /\ UNCHANGED <<text, selectedText, isGeneratingAudio, error, errorAge, voices, selectedVoice,
                   utterance, cancelled, utteranceText, recleanedText, pc>>
    /\ Render

\* handleResume
HandleResume ==
    /\ IF synthPaused
       THEN /\ synthPaused' = FALSE
            /\ isPaused' = FALSE
            /\ isSpeaking' = TRUE
       ELSE UNCHANGED <<synthPaused, isPaused, isSpeaking>>
    /\ UNCHANGED <<text, selectedText, isGeneratingAudio, error, errorAge, voices, selectedVoice,
                   currentCharIndex, utterance, cancelled, utteranceText,
                   recleanedText, pc>>
    /\ Render

\* handleSpeak(false) past the synth.paused test
SpeakNew ==
    LET textToUse == TextToUse(selectedText, text) IN
    IF textToUse = <<>>
    THEN UNCHANGED vars
    ELSE /\ cancelled' = AfterCancel
         /\ IF ~VoiceFound
            THEN /\ utterance' = NoUtterance
                 /\ error' = ErrVoiceNotFound
                 /\ errorAge' = 0
            ELSE /\ utterance' = [text |-> cleanText(textToUse), raw |-> textToUse,
                                  started |-> FALSE]
                 /\ UNCHANGED <<error, errorAge>>
         /\ UNCHANGED <<text, selectedText, isSpeaking, isPaused, isGeneratingAudio,
                        voices, selectedVoice, currentCharIndex, synthPaused,
                        utteranceText, recleanedText, pc>>
         /\ Render

\* handleSpeak(false); without the synth object the call of synth.cancel()
\* throws and the handler ends there
HandleSpeak ==
    IF synth = Undefined THEN UNCHANGED vars
    ELSE IF synthPaused THEN HandleResume ELSE SpeakNew

\* handleStop
HandleStop ==
    /\ cancelled' = AfterCancel
    /\ utterance' = NoUtterance
    /\ isSpeaking' = FALSE
    /\ isPaused' = FALSE
    /\ isGeneratingAudio' = FALSE
    /\ UNCHANGED <<text, selectedText, error, errorAge, voices, selectedVoice, currentCharIndex,
                   synthPaused, utteranceText, recleanedText, pc>>
    /\ Render

\* disabled={!selectedVoice || (!text && !synth.paused) || isGeneratingAudio}
MainButtonEnabled ==
    ~(selectedVoice = NoVoice \/ (text = <<>> /\ ~synthPaused) \/ isGeneratingAudio)

\* onClick={isSpeaking ? handlePause : () => handleSpeak(false)}
ClickPause == MainButtonEnabled /\ isSpeaking /\ HandlePause

ClickSpeak ==
    /\ MainButtonEnabled
    /\ ~isSpeaking
    /\ CanCancel
    /\ HandleSpeak

\* The STOP button, rendered when isSpeaking || isPaused || isGeneratingAudio
ClickStop == (isSpeaking \/ isPaused \/ isGeneratingAudio) /\ CanCancel /\ HandleStop

\* The Clear Text button: setText('')
ClickClearText ==
    /\ ~(isSpeaking \/ isPaused \/ isGeneratingAudio)
    /\ text' = <<>>
    /\ UNCHANGED <<appVars, currentCharIndex, utteranceText, recleanedText, pc>>
    /\ Render

\* handleGenerateAudio, behind the Generate Audio File button
ClickGenerateAudio ==
    /\ ~(isSpeaking \/ isPaused \/ isGeneratingAudio \/ (text = <<>> /\ selectedText = <<>>))
    /\ IF TextToUse(selectedText, text) = <<>>
       THEN error' = ErrEnterText /\ UNCHANGED isGeneratingAudio
       ELSE isGeneratingAudio' = TRUE /\ error' = ErrGenerationNotice
    /\ errorAge' = 0
    /\ UNCHANGED <<text, selectedText, isSpeaking, isPaused, voices, selectedVoice,
                   currentCharIndex, synthPaused, utterance, cancelled,
                   utteranceText, recleanedText, pc>>
    /\ Render

\* setTimeout(() => setIsGeneratingAudio(false), 3000)
GenerateTimeout ==
    /\ isGeneratingAudio
    /\ isGeneratingAudio' = FALSE
    /\ UNCHANGED <<text, selectedText, isSpeaking, isPaused, error, errorAge, voices, selectedVoice,
                   currentCharIndex, synthPaused, utterance, cancelled,
                   utteranceText, recleanedText, pc>>
    /\ Render

\* The textarea, rendered when isSpeaking is false: onChange
TypeText(value) ==
    /\ ~isSpeaking
    /\ value # text
    /\ text' = value
    /\ selectedText' = <<>>
    /\ UNCHANGED <<isSpeaking, isPaused, isGeneratingAudio, error, errorAge, voices, selectedVoice,
                   currentCharIndex, synthPaused, utterance, cancelled,
                   utteranceText, recleanedText, pc>>
    /\ Render

\* The textarea: onMouseUp with the selection [start, end) of the text
SelectText(start, end) ==
    /\ ~isSpeaking
    /\ selectedText' = IF start # end THEN SubSeq(text, start + 1, end) ELSE <<>>
    /\ UNCHANGED <<text, isSpeaking, isPaused, isGeneratingAudio, error, errorAge, voices,
                   selectedVoice, currentCharIndex, synthPaused, utterance, cancelled,
                   utteranceText, recleanedText, pc>>
    /\ Render

\* The voice selector of DictatorControls: onVoiceChange
ChangeVoice(name) ==
    /\ \E i \in 1..Len(voices) : voices[i].name = name
    /\ selectedVoice' = name
    /\ UNCHANGED <<text, selectedText, isSpeaking, isPaused, isGeneratingAudio, error, errorAge,
                   voices, currentCharIndex, synthPaused, utterance, cancelled,
                   utteranceText, recleanedText, pc>>
    /\ Render

\* handleFileChange: reader.onload
FileLoaded(content) ==
    /\ text' = content
    /\ UNCHANGED <<appVars, currentCharIndex, utteranceText, recleanedText, pc>>
    /\ Render

\* handleFileChange: reader.onerror
FileFailed ==
    /\ error' = ErrReadingFile
    /\ errorAge' = 0
    /\ UNCHANGED <<text, selectedText, isSpeaking, isPaused, isGeneratingAudio, voices,
                   selectedVoice, currentCharIndex, synthPaused, utterance, cancelled,
                   utteranceText, recleanedText, pc>>
    /\ Render

\* handleClearData with the confirmation accepted. loadVoices is the closure
\* of the last render, so it tests the selectedVoice of before the reset.
HandleClearData(available) ==
    /\ text' = DEFAULT_TEXT
    /\ error' = NoError
    /\ errorAge' = 0
    /\ voices' = available
    /\ selectedVoice' = IF Len(available) > 0 /\ selectedVoice = NoVoice
                        THEN DefaultVoice(available)
                        ELSE NoVoice
    /\ UNCHANGED <<selectedText, isSpeaking, isPaused, isGeneratingAudio,
                   currentCharIndex, synthPaused, utterance, cancelled,
                   utteranceText, recleanedText, pc>>
    /\ Render

\* The error clearing effect: the 5 second timer fires
ErrorTimeout ==
    /\ timerLeft >= 0
    /\ error' = IF IncludesNotSupported(error) THEN error ELSE NoError
    /\ errorAge' = IF IncludesNotSupported(error) THEN errorAge ELSE 0
    /\ timerLeft' = -1
    /\ UNCHANGED <<text, selectedText, isSpeaking, isPaused, isGeneratingAudio, voices,
                   selectedVoice, currentCharIndex, synthPaused, utterance, cancelled,
                   utteranceText, recleanedText, pc>>
    /\ RenderDisplay
    /\ UNCHANGED synth

\* utterance.onstart
OnStartHandler ==
    /\ isSpeaking' = TRUE
    /\ currentCharIndex' = 0

\* A plausible slip: the kind of the boundary not tested.
OnBoundaryHandlerAnyKind(name, charIndex) == currentCharIndex' = charIndex

\* utterance.onboundary
OnBoundaryHandler(name, charIndex) ==
    currentCharIndex' = IF name = "word" THEN charIndex ELSE currentCharIndex

\* A plausible slip: the index left as it is when the speech ends.
OnEndHandlerKeepsIndex ==
    /\ isSpeaking' = FALSE
    /\ UNCHANGED currentCharIndex

\* utterance.onend
OnEndHandler ==
    /\ isSpeaking' = FALSE
    /\ currentCharIndex' = -1

\* utterance.onerror
OnErrorHandler ==
    /\ error' = ErrSpeech
    /\ errorAge' = 0
    /\ isSpeaking' = FALSE
    /\ currentCharIndex' = -1

\* The engine begins to speak the utterance at the head of its queue
UtteranceStart ==
    /\ utterance # NoUtterance
    /\ ~utterance.started
    /\ ~synthPaused
    /\ utterance' = [utterance EXCEPT !.started = TRUE]
    /\ OnStartHandler
    /\ UNCHANGED <<text, selectedText, isPaused, isGeneratingAudio, error, errorAge, voices,
                   selectedVoice, synthPaused, cancelled, utteranceText,
                   recleanedText, pc>>
    /\ Render

\* The engine reaches a word or sentence boundary of the utterance it speaks
UtteranceBoundary(name, charIndex) ==
    /\ SynthSpeaking
    /\ ~synthPaused
    /\ OnBoundaryHandler(name, charIndex)
    /\ UNCHANGED <<text, selectedText, isSpeaking, isPaused, isGeneratingAudio, error, errorAge,
                   voices, selectedVoice, synthPaused, utterance, cancelled,
                   utteranceText, recleanedText, pc>>
    /\ Render

\* The engine has spoken the utterance to its end
UtteranceEnd ==
    /\ SynthSpeaking
    /\ ~synthPaused
    /\ utterance' = NoUtterance
    /\ OnEndHandler
    /\ UNCHANGED <<text, selectedText, isPaused, isGeneratingAudio, error, errorAge, voices,
                   selectedVoice, synthPaused, cancelled, utteranceText,
                   recleanedText, pc>>
    /\ Render

\* The engine fails on the utterance in its queue, paused or not
UtteranceError ==
    /\ utterance # NoUtterance
    /\ utterance' = NoUtterance
    /\ OnErrorHandler
    /\ UNCHANGED <<text, selectedText, isPaused, isGeneratingAudio, voices,
                   selectedVoice, synthPaused, cancelled, utteranceText,
                   recleanedText, pc>>
    /\ Render

\* The last event of an utterance that cancel() removed: end, as browsers
\* have delivered it
CancelledEnd ==
    /\ cancelled > 0
    /\ cancelled' = cancelled - 1
    /\ OnEndHandler
    /\ UNCHANGED <<text, selectedText, isPaused, isGeneratingAudio, error, errorAge, voices,
                   selectedVoice, synthPaused, utterance, utteranceText,
                   recleanedText, pc>>
    /\ Render

\* The last event of an utterance that cancel() removed: error (canceled or
\* interrupted), as the Web Speech API specifies
CancelledError ==
    /\ cancelled > 0
    /\ cancelled' = cancelled - 1
    /\ OnErrorHandler
    /\ UNCHANGED <<text, selectedText, isPaused, isGeneratingAudio, voices,
                   selectedVoice, synthPaused, utterance, utteranceText,
                   recleanedText, pc>>
    /\ Render

\* The selections offered: [0, end) of a bounded length
Selections ==
    {se \in {0} \X (0..MaxSelLen) : se[2] <= Len(text)}

\* synth.getVoices(): empty until the engine has loaded its voices
GetVoices == IF voices = <<>> THEN {<<>>, AvailableVoices} ELSE {AvailableVoices}

BoundaryIndexes ==
    0..Min(MaxCharIndex, IF utterance = NoUtterance THEN 0 ELSE Len(utterance.text))

UserStep ==
    \/ ClickSpeak
    \/ ClickPause
    \/ ClickStop
    \/ ClickClearText
    \/ ClickGenerateAudio
    \/ \E value \in EditTexts : TypeText(value)
    \/ \E se \in Selections : SelectText(se[1], se[2])
    \/ \E name \in {"Alice", "Bob"} : ChangeVoice(name)
    \/ \E content \in EditTexts : FileLoaded(content)
    \/ FileFailed
    \/ \E available \in GetVoices : HandleClearData(available)

EngineStep ==
    \/ UtteranceStart
    \/ \E name \in {"word", "sentence"}, charIndex \in BoundaryIndexes :
          UtteranceBoundary(name, charIndex)
    \/ UtteranceEnd
    \/ UtteranceError
    \/ CancelledEnd
    \/ CancelledError

TimerStep ==
    \/ \E available \in GetVoices : LoadVoices(available)
    \/ GenerateTimeout
    \/ ErrorTimeout

Next == UserStep \/ EngineStep \/ TimerStep

Spec == Init /\ [][Next]_vars

----------------------------------------------------------------------------
(* The error message and its timer, with time counted in seconds, in a     *)
(* browser with or without the Web Speech API. The stored voice is one the *)
(* browser does not have, so that handleSpeak reports it.                  *)

ErrorInit ==
    /\ text \in {HiThere, DEFAULT_TEXT}
    /\ selectedVoice = "Gone"
    /\ synth \in {SpeechSynthesis, Undefined}
    /\ selectedText = <<>>
    /\ isSpeaking = FALSE
    /\ isPaused = FALSE
    /\ isGeneratingAudio = FALSE
    /\ error = NoError
    /\ voices = <<>>
    /\ currentCharIndex = -1
    /\ synthPaused = FALSE
    /\ utterance = NoUtterance
    /\ cancelled = 0
    /\ timerLeft = -1
    /\ errorAge = 0
    /\ utteranceText = Unset
    /\ recleanedText = Unset
    /\ pc = "mount"
    /\ tokenData = TokenData(TextToHighlight(<<>>, text))
    /\ highlighted = {}

\* The effect run at mount: the first loadVoices, or the error of a browser
\* without the API
MountEffect(available) ==
    /\ pc = "mount"
    /\ pc' = "app"
    /\ IF synth = Undefined
       THEN /\ error' = ErrNotSupported
            /\ errorAge' = 0
            /\ UNCHANGED <<voices, selectedVoice>>
       ELSE /\ voices' = available
            /\ selectedVoice' = IF Len(available) > 0 /\ selectedVoice = NoVoice
                                THEN DefaultVoice(available)
                                ELSE selectedVoice
            /\ UNCHANGED <<error, errorAge>>
    /\ UNCHANGED <<text, selectedText, isSpeaking, isPaused, isGeneratingAudio,
                   currentCharIndex, synthPaused, utterance, cancelled, utteranceText,
                   recleanedText>>
    /\ Render

\* One second passes while the error timer is pending
Tick ==
    /\ pc = "app"
    /\ timerLeft > 0
    /\ timerLeft' = timerLeft - 1
    /\ errorAge' = errorAge + 1
    /\ UNCHANGED <<text, tokenData, utteranceText, recleanedText, currentCharIndex,
                   highlighted, pc, selectedText, isSpeaking, isPaused, isGeneratingAudio,
                   error, voices, selectedVoice, synthPaused, utterance, cancelled, synth>>

\* The error timer fires when its 5 seconds have passed
TimerFires == timerLeft = 0 /\ ErrorTimeout

ErrorNext ==
    \/ \E available \in GetVoices : MountEffect(available)
    \/ pc = "app" /\ FileFailed
    \/ pc = "app" /\ ClickSpeak
    \/ TimerFires
    \/ Tick

ErrorSpec == ErrorInit /\ [][ErrorNext]_vars

----------------------------------------------------------------------------
(* Vocabulary of the properties *)

RECURSIVE Flatten(_)
Flatten(ss) == IF ss = <<>> THEN <<>> ELSE Head(ss) \o Flatten(Tail(ss))

\* s.substring(start, start + len) with 0-based start
Slice(s, start, len) == SubSeq(s, start + 1, Min(start + len, Len(s)))

WordIndexes(table) == {m \in 1..Len(table) : table[m].isWord}

\* m and n are word segments with no word segment between them
ConsecutiveWords(table, m, n) ==
    /\ m \in WordIndexes(table)
    /\ n \in WordIndexes(table)
    /\ m < n
    /\ \A k \in (m + 1)..(n - 1) : ~table[k].isWord

\* The half-open range [cleanIndexStart, cleanIndexStart + cleanLength)
Range(item) == item.cleanIndexStart..(item.cleanIndexStart + item.cleanLength - 1)

\* Position i of s lies inside a substring matching < [^>]* > :
\* some "<" at or before i with no ">" from it up to i, and a ">" at or after i.
InTag(s, i) ==
    /\ \E j \in 1..i : s[j] = "<" /\ \A m \in j..(i - 1) : s[m] # ">"
    /\ \E k \in i..Len(s) : s[k] = ">"

HasTag(s) == \E i \in 1..Len(s) : InTag(s, i)

\* No tag of s contains a whitespace character
NoSpaceInTag(s) == \A i \in 1..Len(s) : InTag(s, i) => s[i] \notin WhiteSpace

\* Step 1 as the spec words it: every tag-like substring becomes one space
Step1(s) ==
    Flatten([i \in 1..Len(s) |->
        IF ~InTag(s, i) THEN <<s[i]>>
        ELSE IF s[i] = ">" THEN <<" ">> ELSE <<>>])

\* Step 2: every maximal run of markup characters becomes one space
Step2(s) ==
    Flatten([i \in 1..Len(s) |->
        IF s[i] \notin Markup THEN <<s[i]>>
        ELSE IF i = 1 \/ s[i - 1] \notin Markup THEN <<" ">> ELSE <<>>])

\* Step 3: every maximal run of two or more whitespace characters becomes
\* one space; a whitespace character standing alone is kept as it is
Step3(s) ==
    Flatten([i \in 1..Len(s) |->
        IF s[i] \notin WhiteSpace THEN <<s[i]>>
        ELSE IF i > 1 /\ s[i - 1] \in WhiteSpace THEN <<>>
        ELSE IF i < Len(s) /\ s[i + 1] \in WhiteSpace THEN <<" ">>
        ELSE <<s[i]>>])

\* Step 4: leading and trailing whitespace removed
Step4(s) ==
    Flatten([i \in 1..Len(s) |->
        IF /\ \E j \in 1..i : s[j] \notin WhiteSpace
           /\ \E k \in i..Len(s) : s[k] \notin WhiteSpace
        THEN <<s[i]>> ELSE <<>>])

----------------------------------------------------------------------------
(* C1 *)

\* C1: for every raw text and every word segment of its table with
\* cleanLength > 0, the substring of cleanText(raw) that starts at
\* cleanIndexStart and has length cleanLength is cleanText(segment text).
C1_StartLocatesWord ==
    utteranceText # Unset =>
        \A m \in WordIndexes(tokenData) :
            tokenData[m].cleanLength > 0 =>
                Slice(utteranceText, tokenData[m].cleanIndexStart, tokenData[m].cleanLength)
                    = cleanText(tokenData[m].token)

\* C1 restricted to the raw texts none of whose tags contains whitespace:
\* there every word of cleanLength > 0 sits at cleanIndexStart.
C1_HoldsWithoutSpaceInTag ==
    (utteranceText # Unset /\ text # Null /\ NoSpaceInTag(text)) =>
        \A m \in WordIndexes(tokenData) :
            tokenData[m].cleanLength > 0 =>
                Slice(utteranceText, tokenData[m].cleanIndexStart, tokenData[m].cleanLength)
                    = cleanText(tokenData[m].token)

----------------------------------------------------------------------------
(* C2 *)

\* C2: cleanText is idempotent: cleaning the cleaned text changes nothing.
C2_Idempotent ==
    recleanedText # Unset => recleanedText = utteranceText

\* cleanText has been applied twice to a text that the first pass changed
\* into a non-empty string
C2_Witness ==
    /\ recleanedText # Unset
    /\ utteranceText # <<>>
    /\ utteranceText # text
    /\ recleanedText = utteranceText

----------------------------------------------------------------------------
(* C3 *)

\* C3: the output of cleanText holds no tag-like substring, none of the
\* markup characters, no two adjacent whitespace characters, and neither
\* starts nor ends with whitespace.
C3_NormalizedIsClean ==
    utteranceText # Unset =>
        LET u == utteranceText IN
        /\ ~HasTag(u)
        /\ \A i \in 1..Len(u) : u[i] \notin Markup
        /\ \A i \in 1..(Len(u) - 1) : ~(u[i] \in WhiteSpace /\ u[i + 1] \in WhiteSpace)
        /\ u # <<>> => (u[1] \notin WhiteSpace /\ u[Len(u)] \notin WhiteSpace)

\* a raw text that starts with whitespace and holds a tag has been cleaned
\* into a non-empty string
C3_Witness ==
    /\ utteranceText # Unset
    /\ utteranceText # <<>>
    /\ text # Null
    /\ text[1] \in WhiteSpace
    /\ HasTag(text)

----------------------------------------------------------------------------
(* C4 *)

\* C4: cleanText(raw) is the result of the four steps applied in order
\* (tags to a space, markup runs to a space, whitespace runs of two or more
\* to a space, trim); empty or null input gives the empty string; the two
\* examples of the spec give the stated outputs.
C4_FourSteps ==
    utteranceText # Unset =>
        /\ utteranceText =
              IF text = Null \/ text = <<>> THEN <<>>
              ELSE Step4(Step3(Step2(Step1(text))))
        /\ text = Example1 => utteranceText = Example1Clean
        /\ text = Example2 => utteranceText = Example2Clean

\* Example 1 of the spec has been cleaned
C4_Witness ==
    /\ text = Example1
    /\ utteranceText = Example1Clean

----------------------------------------------------------------------------
(* C5 *)

\* C5: for every string, the tokens of its table concatenated in order are
\* the string itself.
C5_RoundTrip ==
    (pc # "input" /\ text # Null) =>
        Flatten([m \in 1..Len(tokenData) |-> tokenData[m].token]) = text

\* a table with at least three segments, one of them a whitespace run of
\* two or more characters
C5_Witness ==
    /\ pc # "input"
    /\ text # Null
    /\ Len(tokenData) >= 3
    /\ \E m \in 1..Len(tokenData) : ~tokenData[m].isWord /\ Len(tokenData[m].token) >= 2

----------------------------------------------------------------------------
(* C6 *)

\* C6 as stated: for any two consecutive word segments, cleanIndexStart of
\* the second is cleanIndexStart + cleanLength + 1 of the first.
C6_NextStartPlusOne ==
    \A m, n \in 1..Len(tokenData) :
        ConsecutiveWords(tokenData, m, n) =>
            tokenData[n].cleanIndexStart
                = tokenData[m].cleanIndexStart + tokenData[m].cleanLength + 1

\* C6 amended: for any two consecutive word segments, cleanIndexStart of the
\* second is cleanIndexStart + cleanLength + 1 of the first when the first
\* has cleanLength > 0, and is cleanIndexStart of the first when the first
\* has cleanLength 0.
C6_NextStartAmended ==
    \A m, n \in 1..Len(tokenData) :
        ConsecutiveWords(tokenData, m, n) =>
            tokenData[n].cleanIndexStart
                = IF tokenData[m].cleanLength > 0
                  THEN tokenData[m].cleanIndexStart + tokenData[m].cleanLength + 1
                  ELSE tokenData[m].cleanIndexStart

\* a table in which a word of cleanLength 0 is followed by a word, and a
\* word of cleanLength > 0 is followed by a word
C6_Witness ==
    /\ \E m, n \in 1..Len(tokenData) :
          ConsecutiveWords(tokenData, m, n) /\ tokenData[m].cleanLength = 0
    /\ \E m, n \in 1..Len(tokenData) :
          ConsecutiveWords(tokenData, m, n) /\ tokenData[m].cleanLength > 0

----------------------------------------------------------------------------
(* C7 *)

\* C7: the ranges [cleanIndexStart, cleanIndexStart + cleanLength) of two
\* distinct word segments of a table have no offset in common.
C7_Disjoint ==
    \A m, n \in WordIndexes(tokenData) :
        m # n => Range(tokenData[m]) \cap Range(tokenData[n]) = {}

\* a table with two words of cleanLength > 0, the first longer than one
\* character
C7_Witness ==
    \E m, n \in WordIndexes(tokenData) :
        m < n /\ tokenData[m].cleanLength > 1 /\ tokenData[n].cleanLength > 0

----------------------------------------------------------------------------
(* C8 *)

\* C8: cleanIndexStart never decreases from a word segment to a later one.
C8_Monotone ==
    \A m, n \in WordIndexes(tokenData) :
        m < n => tokenData[m].cleanIndexStart <= tokenData[n].cleanIndexStart

\* a table with three words of cleanLength > 0, the second shorter than the
\* first
C8_Witness ==
    \E k, m, n \in WordIndexes(tokenData) :
        /\ k < m /\ m < n
        /\ tokenData[m].cleanLength > 0
        /\ tokenData[m].cleanLength < tokenData[k].cleanLength
        /\ tokenData[n].cleanLength > 0

----------------------------------------------------------------------------
(* C9 *)

\* C9: for every table and every offset, the render marks at most one
\* segment as the current word.
C9_AtMostOneActive ==
    pc = "rendered" => Cardinality(highlighted) <= 1

\* a table with two words or more has been rendered with one of them active
C9_Witness ==
    /\ pc = "rendered"
    /\ Cardinality(WordIndexes(tokenData)) >= 2
    /\ Cardinality(highlighted) = 1

----------------------------------------------------------------------------
(* C10 *)

----------------------------------------------------------------------------
(* C11 *)

\* The table the spec gives for "Hi there"; the gap carries no offsets in
\* the spec, so only its text and class are compared.
HiThereTable(table) ==
    /\ Len(table) = 3
    /\ table[1] = [token |-> <<"H", "i">>, isWord |-> TRUE,
                   cleanIndexStart |-> 0, cleanLength |-> 2]
    /\ table[2].token = <<" ">> /\ ~table[2].isWord
    /\ table[3] = [token |-> <<"t", "h", "e", "r", "e">>, isWord |-> TRUE,
                   cleanIndexStart |-> 3, cleanLength |-> 5]

\* C11: the table is built with a cursor that starts at 0: a word segment
\* has cleanLength = length of cleanText(its text), the segment after a word
\* of cleanLength > 0 starts cleanLength + 1 further, the segment after any
\* other segment starts at the same place; "Hi there" gives Hi (0, 2), one
\* gap, there (3, 5), and offset 4 marks the segment "there".
C11_OnePassCursor ==
    /\ pc # "input" =>
          /\ Len(tokenData) > 0 => tokenData[1].cleanIndexStart = 0
          /\ \A m \in WordIndexes(tokenData) :
                tokenData[m].cleanLength = Len(cleanText(tokenData[m].token))
          /\ \A m \in 1..(Len(tokenData) - 1) :
                tokenData[m + 1].cleanIndexStart =
                    tokenData[m].cleanIndexStart +
                    (IF tokenData[m].isWord /\ tokenData[m].cleanLength > 0
                     THEN tokenData[m].cleanLength + 1 ELSE 0)
          /\ text = HiThere => HiThereTable(tokenData)
    /\ (pc = "rendered" /\ text = HiThere /\ currentCharIndex = 4) => highlighted = {3}

\* "Hi there" has been rendered at offset 4 and the segment "there" is marked
C11_Witness ==
    /\ pc = "rendered"
    /\ text = HiThere
    /\ currentCharIndex = 4
    /\ highlighted = {3}
    /\ HiThereTable(tokenData)

----------------------------------------------------------------------------
(* C17 *)

\* C17: every segment of a table is non-empty, is made only of whitespace
\* (isWord false) or only of non-whitespace (isWord true), and no two
\* adjacent segments have the same class; the empty text gives the empty
\* table.
C17_MaximalRuns ==
    pc # "input" =>
        /\ \A m \in 1..Len(tokenData) :
              LET t == tokenData[m].token IN
              /\ Len(t) > 0
              /\ tokenData[m].isWord => \A i \in 1..Len(t) : t[i] \notin WhiteSpace
              /\ ~tokenData[m].isWord => \A i \in 1..Len(t) : t[i] \in WhiteSpace
        /\ \A m \in 1..(Len(tokenData) - 1) :
              tokenData[m].isWord # tokenData[m + 1].isWord
        /\ text = <<>> => tokenData = <<>>

\* a table of three segments or more with a word of two characters or more
\* and a gap of two characters or more
C17_Witness ==
    /\ pc # "input"
    /\ Len(tokenData) >= 3
    /\ \E m \in 1..Len(tokenData) : tokenData[m].isWord /\ Len(tokenData[m].token) >= 2
    /\ \E m \in 1..Len(tokenData) : ~tokenData[m].isWord /\ Len(tokenData[m].token) >= 2

----------------------------------------------------------------------------
(* C18 *)

\* C18: a word segment of cleanLength 0 leaves the cursor where it is (the
\* next segment has the same cleanIndexStart) and is never marked by the
\* render, whatever the offset.
C18_EmptyWordNeverActive ==
    \A m \in WordIndexes(tokenData) :
        tokenData[m].cleanLength = 0 =>
            /\ m < Len(tokenData) =>
                  tokenData[m + 1].cleanIndexStart = tokenData[m].cleanIndexStart
            /\ pc = "rendered" => m \notin highlighted

\* a table with a word of cleanLength 0 followed by other segments has been
\* rendered at the offset where that word starts, and another word is marked
C18_Witness ==
    /\ pc = "rendered"
    /\ highlighted # {}
    /\ \E m \in WordIndexes(tokenData) :
          /\ tokenData[m].cleanLength = 0
          /\ m < Len(tokenData)
          /\ currentCharIndex = tokenData[m].cleanIndexStart

----------------------------------------------------------------------------
(* The speech state machine *)

\* The text the display and the speech are about: the selection if there is
\* one, the whole text otherwise
CurrentText == IF Len(selectedText) > 0 THEN selectedText ELSE text

\* An utterance was handed to the engine in this step
Spoken ==
    /\ utterance' # NoUtterance
    /\ ~utterance'.started
    /\ utterance' # utterance

\* C12: after handleStop currentCharIndex is -1 and isSpeaking is false,
\* whatever the engine delivers later.
C12_StopResetsIndex ==
    [][HandleStop => (currentCharIndex' = -1 /\ ~isSpeaking')]_vars

\* C13: after the end event or the error event of an utterance isSpeaking is
\* false and currentCharIndex is -1, and after the error event the error
\* message is set.
C13_EndOrErrorResets ==
    [][/\ (UtteranceEnd \/ CancelledEnd) => (~isSpeaking' /\ currentCharIndex' = -1)
       /\ (UtteranceError \/ CancelledError) =>
              (~isSpeaking' /\ currentCharIndex' = -1 /\ error' = ErrSpeech)]_vars

C13_Witness ==
    /\ error = ErrSpeech
    /\ ~isSpeaking
    /\ currentCharIndex = -1
    /\ utterance = NoUtterance
    /\ cancelled = 0

\* C14: currentCharIndex changes only in the steps of the engine; the start
\* event makes isSpeaking true and the index 0, a boundary event of kind
\* word makes the index the character index of the event, and a boundary
\* event of another kind leaves the index as it was.
C14_OnlyEngineEventsMoveIndex ==
    [][/\ currentCharIndex' # currentCharIndex => EngineStep
       /\ UtteranceStart => (isSpeaking' /\ currentCharIndex' = 0)
       /\ \A charIndex \in 0..MaxCharIndex :
             /\ UtteranceBoundary("word", charIndex) => currentCharIndex' = charIndex
             /\ UtteranceBoundary("sentence", charIndex) =>
                    currentCharIndex' = currentCharIndex]_vars

C14_Witness ==
    /\ isSpeaking
    /\ SynthSpeaking
    /\ currentCharIndex = 3
    /\ utterance.text = HiThere

\* C15: the table in use is always the table of the selection if it is not
\* empty and of the whole text otherwise, and no speech event and no control
\* action (start, pause, resume, stop) changes it.
C15_TableOfCurrentText ==
    /\ [](tokenData = TokenData(CurrentText))
    /\ [][(EngineStep \/ ClickSpeak \/ ClickPause \/ ClickStop) =>
              tokenData' = tokenData]_vars

C15_Witness ==
    /\ Len(selectedText) > 0
    /\ selectedText # text
    /\ isSpeaking
    /\ SynthSpeaking
    /\ tokenData = TokenData(selectedText)

\* C16: the string handleSpeak hands to the engine is cleanText(t), t being
\* the selection if it is not empty and the whole text otherwise, and the
\* table at that moment is the table of the same t.
C16_SpokenIsCleanOfCurrentText ==
    [][Spoken => /\ utterance'.text = cleanText(CurrentText)
                 /\ tokenData' = TokenData(CurrentText)]_vars

C16_Witness ==
    /\ utterance # NoUtterance
    /\ ~utterance.started
    /\ Len(selectedText) > 0
    /\ selectedText # text
    /\ utterance.text = cleanText(selectedText)
    /\ tokenData = TokenData(selectedText)

\* C19: whenever isSpeaking is true and the engine holds an utterance, the
\* table is the table of the raw text that was normalized into that
\* utterance.
C19_TableOfSpokenText ==
    (isSpeaking /\ utterance # NoUtterance) => tokenData = TokenData(utterance.raw)

\* C20: whenever isSpeaking is true the engine holds an utterance, spoken or
\* pending.
C20_SpeakingHasUtterance == isSpeaking => utterance # NoUtterance

\* C21: while the utterance in the engine is being spoken and isSpeaking is
\* true, the late end or error event of an utterance that cancel() removed
\* leaves isSpeaking true and currentCharIndex as it is.
C21_LateEventsLeaveNewUtterance ==
    [][((CancelledEnd \/ CancelledError) /\ isSpeaking /\ SynthSpeaking) =>
           (isSpeaking' /\ currentCharIndex' = currentCharIndex)]_vars

\* C22: isSpeaking and isPaused are never both true.
C22_NotSpeakingAndPaused == ~(isSpeaking /\ isPaused)

\* An error event arrived while the dictation was paused
C22_Witness ==
    /\ isPaused
    /\ synthPaused
    /\ ~isSpeaking
    /\ error = ErrSpeech
    /\ utterance = NoUtterance

\* sub occurs in s as a run of consecutive characters
IsSubstring(sub, s) ==
    \E start \in 0..(Len(s) - Len(sub)) :
        \A i \in 1..Len(sub) : s[start + i] = sub[i]

\* C23: selectedText is always empty or a substring of the text.
C23_SelectionWithinText == selectedText = <<>> \/ IsSubstring(selectedText, text)

\* C24: once the voice list is loaded and not empty, selectedVoice names a
\* voice of the list, and the error of handleSpeak for a voice that is not
\* found never shows.
C24_SelectedVoiceIsLoaded ==
    voices # <<>> =>
        /\ \E i \in 1..Len(voices) : voices[i].name = selectedVoice
        /\ error # ErrVoiceNotFound

\* C25: a handleSpeak whose text to use is empty changes nothing; a
\* handleSpeak whose voice is not in the list sets the error and leaves
\* isSpeaking, isPaused, currentCharIndex and the utterance of the engine as
\* they are.
C25_NoUsableInputNoEffect ==
    [][ClickSpeak =>
          /\ CurrentText = <<>> => UNCHANGED vars
          /\ (CurrentText # <<>> /\ ~VoiceFound) =>
                 /\ error' = ErrVoiceNotFound
                 /\ UNCHANGED <<isSpeaking, isPaused, currentCharIndex, utterance>>]_vars

\* C26: handlePause and handleResume leave currentCharIndex, the table, the
\* text and the selection as they are; of the state of the App handlePause
\* changes only isSpeaking, isPaused, isGeneratingAudio and error, and
\* handleResume only isSpeaking and isPaused.
C26_PauseResumeKeepPlace ==
    [][/\ (ClickPause \/ HandleResume) =>
              UNCHANGED <<currentCharIndex, tokenData, text, selectedText, voices,
                          selectedVoice>>
       /\ HandleResume => UNCHANGED <<isGeneratingAudio, error>>
       /\ (ClickPause /\ ~isGeneratingAudio) => UNCHANGED <<isGeneratingAudio, error>>]_vars

\* Paused on the second word of Hi there
C26_Witness ==
    /\ isPaused
    /\ synthPaused
    /\ SynthSpeaking
    /\ currentCharIndex = 3
    /\ tokenData = TokenData(HiThere)
    /\ utterance.raw = HiThere

\* The word segments of the table whose normalized form is not empty
SpokenWords(table) ==
    {m \in 1..Len(table) : table[m].isWord /\ table[m].cleanLength > 0}

\* C27: right after the start event, if the table has a word segment whose
\* normalized form is not empty, the first such segment is the one marked,
\* and no segment before it is.
C27_StartMarksFirstSpokenWord ==
    [][OnStart =>
          (SpokenWords(tokenData') # {} =>
              \E m \in SpokenWords(tokenData') :
                  /\ \A k \in SpokenWords(tokenData') : m <= k
                  /\ highlighted' = {m})]_vars

\* Rendered at offset 0 with a whitespace segment and a word of empty
\* normalized form before the marked word
C27_Witness ==
    /\ pc = "rendered"
    /\ currentCharIndex = 0
    /\ \E m \in highlighted :
          /\ ~tokenData[1].isWord
          /\ \E j \in 2..(m - 1) : tokenData[j].isWord /\ tokenData[j].cleanLength = 0

\* C28: while a message that does not contain "not supported" shows, the
\* timer that the latest setError call of a message started is pending and
\* fires 5 seconds after that call; when the timer fires it resets such a
\* message to null and leaves the not supported message as it is.
C28_ErrorTimer ==
    /\ []((error # NoError /\ ~IncludesNotSupported(error)) =>
              timerLeft = ErrorDelay - errorAge)
    /\ [][TimerFires =>
              error' = IF IncludesNotSupported(error) THEN error ELSE NoError]_vars

====
